---- MODULE Spec2Model ----
(***************************************************************************)
(* The mentor chat handler of backend/controllers/mentorController.js:     *)
(* exports.getChatResponse.  One request is one run of the async handler:  *)
(* a synchronous segment up to the first await (User.findById), a second   *)
(* segment up to the second await (model.generateContent) and a last       *)
(* segment that emits the reply.  The profile store and the completion     *)
(* engine are the environment: each await is settled by a nondeterministic *)
(* choice of a fulfilment value or a rejection.                            *)
(*                                                                         *)
(* JavaScript strings are sequences of UTF-16 code units; a code unit is   *)
(* written as a one-character string when it is printable ASCII, "\n" for  *)
(* the line feed and "U+XXXX" otherwise.                                   *)
(***************************************************************************)
EXTENDS Integers, Sequences, FiniteSets, TLC

VARIABLES req, pc, frame, res, findByIdCalls, generateContentCalls, randomCalls

vars == <<req, pc, frame, res, findByIdCalls, generateContentCalls, randomCalls>>

(***************************************************************************)
(* Bounds of the model.                                                    *)
(***************************************************************************)
\* a message is the concatenation of at most MaxChunks chunks of Chunks
MaxChunks == 2
\* a history holds at most MaxHistory entries
MaxHistory == 2
\* a user document holds at most MaxSkills skills
MaxSkills == 2
\* requests in flight together in SpecConcurrent
NumRequests == 2

(***************************************************************************)
(* JavaScript values.                                                      *)
(***************************************************************************)
Undefined == [t |-> "undefined"]
Null == [t |-> "null"]
Str(s) == [t |-> "string", v |-> s]
Num(n) == [t |-> "number", n |-> n]
Arr(s) == [t |-> "array", v |-> s]
Obj(p) == [t |-> "object", props |-> p]

IsNullish(x) == x.t \in {"undefined", "null"}

\* x.f for a value x that is not null or undefined
Get(x, f) ==
    IF x.t = "object" /\ f \in DOMAIN x.props THEN x.props[f] ELSE Undefined

\* x?.f
OptGet(x, f) == IF IsNullish(x) THEN Undefined ELSE Get(x, f)

\* x?.[i], i counted from 0
OptIndex(x, i) ==
    IF x.t = "array" /\ i + 1 <= Len(x.v) THEN x.v[i + 1] ELSE Undefined

\* x?.length
OptLength(x) ==
    IF x.t \in {"array", "string"} THEN Num(Len(x.v)) ELSE Undefined

\* the truthiness that ||, ?: and if test
Truthy(x) ==
    CASE x.t = "string" -> Len(x.v) > 0
      [] x.t = "number" -> x.n # 0
      [] x.t \in {"undefined", "null"} -> FALSE
      [] OTHER -> TRUE

(***************************************************************************)
(* String.prototype methods and the regular-expression primitives.         *)
(***************************************************************************)
UpperCase ==
    <<"A", "B", "C", "D", "E", "F", "G", "H", "I", "J", "K", "L", "M",
      "N", "O", "P", "Q", "R", "S", "T", "U", "V", "W", "X", "Y", "Z">>

LowerCase ==
    <<"a", "b", "c", "d", "e", "f", "g", "h", "i", "j", "k", "l", "m",
      "n", "o", "p", "q", "r", "s", "t", "u", "v", "w", "x", "y", "z">>

Digits == {"0", "1", "2", "3", "4", "5", "6", "7", "8", "9"}

\* \w
WordChars ==
    {UpperCase[i] : i \in 1..26} \cup {LowerCase[i] : i \in 1..26} \cup Digits \cup {"_"}

\* the white space String.prototype.trim strips, among the code units used here
WhiteSpace == {" ", "\t", "\n", "\r", "U+00A0", "U+FEFF"}

\* [ఀ-౿], among the code units used here; "U+0C80" and "U+0BFF" lie outside
TeluguBlock == {"U+0C00", "U+0C15", "U+0C28", "U+0C7F"}

toLowerCaseUnit(c) ==
    IF \E k \in 1..26 : UpperCase[k] = c
    THEN LowerCase[CHOOSE k \in 1..26 : UpperCase[k] = c]
    ELSE c

toLowerCase(s) == [i \in 1..Len(s) |-> toLowerCaseUnit(s[i])]

trim(s) ==
    LET keep == {i \in 1..Len(s) : s[i] \notin WhiteSpace}
    IN  IF keep = {} THEN <<>>
        ELSE LET first == CHOOSE i \in keep : \A j \in keep : i <= j
                 last == CHOOSE i \in keep : \A j \in keep : j <= i
             IN  SubSeq(s, first, last)

\* p occurs in s starting at position i (counted from 1)
MatchAt(s, i, p) ==
    /\ i + Len(p) - 1 <= Len(s)
    /\ \A k \in 1..Len(p) : s[i + k - 1] = p[k]

\* \b holds before position i of s (i = Len(s) + 1 is the end of s)
WordBoundary(s, i) ==
    LET before == i > 1 /\ s[i - 1] \in WordChars
        after == i <= Len(s) /\ s[i] \in WordChars
    IN  before # after

\* /(t1|t2|...)/.test(s)
TestAny(s, terms) ==
    \E p \in terms : \E i \in 1..Len(s) : MatchAt(s, i, p)

\* /\b(t1|t2|...)\b/.test(s)
TestWord(s, terms) ==
    \E p \in terms : \E i \in 1..Len(s) :
        MatchAt(s, i, p) /\ WordBoundary(s, i) /\ WordBoundary(s, i + Len(p))

\* s.includes(p), p not empty
includes(s, p) == \E i \in 1..Len(s) : MatchAt(s, i, p)

\* the conversion a template literal applies to an interpolated value
TemplateString(x) ==
    CASE x.t = "string" -> x.v
      [] x.t = "undefined" -> <<"u", "n", "d", "e", "f", "i", "n", "e", "d">>
      [] x.t = "null" -> <<"n", "u", "l", "l">>
      [] OTHER -> <<"[", "o", "b", "j", "e", "c", "t", "]">>

RECURSIVE join(_, _)
\* parts.join(sep) for a sequence of strings
join(parts, sep) ==
    IF parts = <<>> THEN <<>>
    ELSE IF Len(parts) = 1 THEN parts[1]
    ELSE parts[1] \o sep \o join(Tail(parts), sep)

(***************************************************************************)
(* String literals of the handler.                                         *)
(***************************************************************************)
\* the alternatives of appreciationRegex
appreciationTerms ==
    { <<"t", "h", "a", "n", "k", "s">>,
      <<"t", "h", "a", "n", "k", " ", "y", "o", "u">>,
      <<"g", "o", "o", "d", " ", "w", "o", "r", "k">>,
      <<"n", "i", "c", "e">>,
      <<"a", "w", "e", "s", "o", "m", "e">>,
      <<"g", "r", "e", "a", "t">>,
      <<"c", "o", "o", "l">>,
      <<"w", "e", "l", "l", " ", "d", "o", "n", "e">>,
      <<"g", "o", "o", "d", " ", "b", "o", "t">>,
      <<"h", "e", "l", "p", "f", "u", "l">>,
      <<"o", "k">>,
      <<"o", "k", "a", "y">>,
      <<"g", "o", "o", "d">> }

\* the strings short(en|ly)? matches
shortTerms ==
    { <<"s", "h", "o", "r", "t">>,
      <<"s", "h", "o", "r", "t", "e", "n">>,
      <<"s", "h", "o", "r", "t", "l", "y">> }

\* the alternatives of the wantsOneLine pattern
oneLineTerms ==
    { <<"o", "n", "e", " ", "l", "i", "n", "e">>,
      <<"1", " ", "l", "i", "n", "e">>,
      <<"s", "i", "n", "g", "l", "e", " ", "l", "i", "n", "e">> }

\* the alternatives of the transliterated definition pattern
teluguDefinitionTerms ==
    { <<"g", "u", "r", "i", "n", "c", "h", "i">>,
      <<"c", "h", "e", "p", "p", "u">>,
      <<"c", "h", "e", "p", "u">> }

\* the alternatives of the English definition pattern
englishDefinitionTerms ==
    { <<"w", "h", "a", "t", " ", "i", "s">>,
      <<"e", "x", "p", "l", "a", "i", "n">>,
      <<"t", "e", "l", "l", " ", "m", "e", " ", "a", "b", "o", "u", "t">>,
      <<"d", "e", "f", "i", "n", "i", "t", "i", "o", "n", " ", "o", "f">> }

\* "short"
ShortText ==
    <<"s", "h", "o", "r", "t">>

\* "in one line"
InOneLineText ==
    <<"i", "n", " ", "o", "n", "e", " ", "l", "i", "n", "e">>

\* the four canned replies
quickReplies ==
    << <<"U+D83D", "U+DC4D", " ", "G", "l", "a", "d", " ", "y", "o", "u", " ", "f", "o", "u", "n", "d",
         " ", "i", "t", " ", "u", "s", "e", "f", "u", "l", "!">>,
       <<"U+D83D", "U+DE0A", " ", "T", "h", "a", "n", "k", " ", "y", "o", "u", "!", " ", "I", "U+2019",
         "m", " ", "a", "l", "w", "a", "y", "s", " ", "h", "e", "r", "e", " ", "t", "o", " ", "g", "u",
         "i", "d", "e", " ", "y", "o", "u", " ", "o", "n", " ", "y", "o", "u", "r", " ", "c", "a", "r",
         "e", "e", "r", " ", "j", "o", "u", "r", "n", "e", "y", ".">>,
       <<"U+D83D", "U+DE4C", " ", "H", "a", "p", "p", "y", " ", "t", "o", " ", "h", "e", "l", "p", "!",
         " ", "L", "e", "t", " ", "m", "e", " ", "k", "n", "o", "w", " ", "w", "h", "a", "t", " ", "y",
         "o", "u", "U+2019", "d", " ", "l", "i", "k", "e", " ", "t", "o", " ", "e", "x", "p", "l", "o",
         "r", "e", " ", "n", "e", "x", "t", ".">>,
       <<"U+2728", " ", "G", "r", "e", "a", "t", "!", " ", "R", "e", "a", "d", "y", " ", "w", "h", "e",
         "n", "e", "v", "e", "r", " ", "y", "o", "u", " ", "w", "a", "n", "t", " ", "t", "o", " ", "c",
         "o", "n", "t", "i", "n", "u", "e", ".">> >>

\* "⚠️ Sorry, I couldn’t generate a response."
FallbackText ==
    <<"U+26A0", "U+FE0F", " ", "S", "o", "r", "r", "y", ",", " ", "I", " ", "c", "o", "u", "l",
      "d", "n", "U+2019", "t", " ", "g", "e", "n", "e", "r", "a", "t", "e", " ", "a", " ", "r",
      "e", "s", "p", "o", "n", "s", "e", ".">>

\* "⚠️ Sorry, I'm having trouble connecting to my brain right now. Please try again later."
ApologyText ==
    <<"U+26A0", "U+FE0F", " ", "S", "o", "r", "r", "y", ",", " ", "I", "'", "m", " ", "h", "a",
      "v", "i", "n", "g", " ", "t", "r", "o", "u", "b", "l", "e", " ", "c", "o", "n", "n", "e",
      "c", "t", "i", "n", "g", " ", "t", "o", " ", "m", "y", " ", "b", "r", "a", "i", "n", " ",
      "r", "i", "g", "h", "t", " ", "n", "o", "w", ".", " ", "P", "l", "e", "a", "s", "e", " ",
      "t", "r", "y", " ", "a", "g", "a", "i", "n", " ", "l", "a", "t", "e", "r", ".">>

\* "The user is asking for a definition/explanation in Telugu."
TeluguDefinitionContext ==
    <<"T", "h", "e", " ", "u", "s", "e", "r", " ", "i", "s", " ", "a", "s", "k", "i", "n", "g",
      " ", "f", "o", "r", " ", "a", " ", "d", "e", "f", "i", "n", "i", "t", "i", "o", "n", "/",
      "e", "x", "p", "l", "a", "n", "a", "t", "i", "o", "n", " ", "i", "n", " ", "T", "e", "l",
      "u", "g", "u", ".">>

\* "The user is asking for a definition/explanation in English."
EnglishDefinitionContext ==
    <<"T", "h", "e", " ", "u", "s", "e", "r", " ", "i", "s", " ", "a", "s", "k", "i", "n", "g",
      " ", "f", "o", "r", " ", "a", " ", "d", "e", "f", "i", "n", "i", "t", "i", "o", "n", "/",
      "e", "x", "p", "l", "a", "n", "a", "t", "i", "o", "n", " ", "i", "n", " ", "E", "n", "g",
      "l", "i", "s", "h", ".">>

\* "The user is asking for career advice. They have the following skills: "
CareerContextHead ==
    <<"T", "h", "e", " ", "u", "s", "e", "r", " ", "i", "s", " ", "a", "s", "k", "i", "n", "g",
      " ", "f", "o", "r", " ", "c", "a", "r", "e", "e", "r", " ", "a", "d", "v", "i", "c", "e",
      ".", " ", "T", "h", "e", "y", " ", "h", "a", "v", "e", " ", "t", "h", "e", " ", "f", "o",
      "l", "l", "o", "w", "i", "n", "g", " ", "s", "k", "i", "l", "l", "s", ":", " ">>

\* "."
CareerContextTail ==
    <<".">>

\* "None"
NoneText ==
    <<"N", "o", "n", "e">>

\* "\nUser: "
UserLineHead ==
    <<"\n", "U", "s", "e", "r", ":", " ">>

\* "\nAssistant: Please answer briefly in 2-3 sentences."
BrevityLine ==
    <<"\n", "A", "s", "s", "i", "s", "t", "a", "n", "t", ":", " ", "P", "l", "e", "a", "s", "e",
      " ", "a", "n", "s", "w", "e", "r", " ", "b", "r", "i", "e", "f", "l", "y", " ", "i", "n",
      " ", "2", "-", "3", " ", "s", "e", "n", "t", "e", "n", "c", "e", "s", ".">>

\* "\nAssistant: Please answer in exactly one sentence."
OneSentenceLine ==
    <<"\n", "A", "s", "s", "i", "s", "t", "a", "n", "t", ":", " ", "P", "l", "e", "a", "s", "e",
      " ", "a", "n", "s", "w", "e", "r", " ", "i", "n", " ", "e", "x", "a", "c", "t", "l", "y",
      " ", "o", "n", "e", " ", "s", "e", "n", "t", "e", "n", "c", "e", ".">>

\* "\nAssistant: Respond in Telugu language, focusing on career guidance."
RespondInTeluguLine ==
    <<"\n", "A", "s", "s", "i", "s", "t", "a", "n", "t", ":", " ", "R", "e", "s", "p", "o", "n",
      "d", " ", "i", "n", " ", "T", "e", "l", "u", "g", "u", " ", "l", "a", "n", "g", "u", "a",
      "g", "e", ",", " ", "f", "o", "c", "u", "s", "i", "n", "g", " ", "o", "n", " ", "c", "a",
      "r", "e", "e", "r", " ", "g", "u", "i", "d", "a", "n", "c", "e", ".">>

(***************************************************************************)
(* The computations of getChatResponse, in source order.                   *)
(***************************************************************************)
\* message.toLowerCase().trim()
lowerMsg(msg) == trim(toLowerCase(msg))

\* the definition test, as RouteDefinitionFirst applies it
isDefinitionRequestEarly(low) ==
    TestAny(low, teluguDefinitionTerms) \/ TestWord(low, englishDefinitionTerms)

\* appreciationRegex.test(lowerMsg)
appreciationRegexTest(low) == TestWord(low, appreciationTerms)

\* Route with the definition test moved before the appreciation test
RouteDefinitionFirst(low) ==
    IF isDefinitionRequestEarly(low) THEN "Delegated"
    ELSE IF appreciationRegexTest(low) THEN "ShortCircuit" ELSE "Delegated"

\* the branch taken at the appreciation test
Route(low) == IF appreciationRegexTest(low) THEN "ShortCircuit" ELSE "Delegated"

wantsShort(low) == TestWord(low, shortTerms) \/ includes(low, ShortText)

wantsOneLine(low) == TestWord(low, oneLineTerms) \/ includes(low, InOneLineText)

\* tested on the original message, not on lowerMsg
isTelugu(msg) == \E i \in 1..Len(msg) : msg[i] \in TeluguBlock

isDefinitionRequest(low) ==
    TestAny(low, teluguDefinitionTerms) \/ TestWord(low, englishDefinitionTerms)

\* `${s.skillName} (${s.proficiency})`
skillText(s) ==
    TemplateString(Get(s, "skillName")) \o <<" ", "(">>
        \o TemplateString(Get(s, "proficiency")) \o <<")">>

\* userSkills without the "None" branch: (user?.skills || []).map(...).join(", ")
userSkillsNoPlaceholder(user) ==
    LET skills == OptGet(user, "skills")
        list == IF skills.t = "array" THEN skills.v ELSE <<>>
    IN  join([i \in 1..Len(list) |-> skillText(list[i])], <<",", " ">>)

\* user?.skills?.length ? user.skills.map(...).join(", ") : "None"
userSkills(user) ==
    LET skills == OptGet(user, "skills")
    IN  IF Truthy(OptLength(skills))
        THEN join([i \in 1..Len(skills.v) |-> skillText(skills.v[i])], <<",", " ">>)
        ELSE NoneText

systemContext(telugu, definition, skillsText) ==
    IF telugu /\ definition THEN TeluguDefinitionContext
    ELSE IF definition THEN EnglishDefinitionContext
    ELSE CareerContextHead \o skillsText \o CareerContextTail

\* history || []
historyOrEmpty(history) == IF Truthy(history) THEN history ELSE Arr(<<>>)

\* (history || []).map(...) throws a TypeError: the value has no map method,
\* or an entry is null or undefined and msg.role is read from it
chatHistoryThrows(history) ==
    LET h == historyOrEmpty(history)
    IN  \/ h.t # "array"
        \/ \E i \in 1..Len(h.v) : IsNullish(h.v[i])

\* { role: msg.role, parts: [{ text: msg.content }] }
historyTurn(msg) ==
    Obj([role |-> Get(msg, "role"),
         parts |-> Arr(<<Obj([text |-> Get(msg, "content")])>>)])

\* chatHistory with the turns in reverse order
chatHistoryReversed(history) ==
    LET h == historyOrEmpty(history)
    IN  [i \in 1..Len(h.v) |-> historyTurn(h.v[Len(h.v) + 1 - i])]

chatHistory(history) ==
    LET h == historyOrEmpty(history)
    IN  [i \in 1..Len(h.v) |-> historyTurn(h.v[i])]

\* finalMessage with the single-sentence line appended before the brevity line
finalMessageOneLineFirst(context, msg, short, oneLine, telugu, definition) ==
    context \o UserLineHead \o msg
        \o (IF oneLine THEN OneSentenceLine ELSE <<>>)
        \o (IF short THEN BrevityLine ELSE <<>>)
        \o (IF telugu /\ ~definition THEN RespondInTeluguLine ELSE <<>>)

\* finalMessage with the Telugu line appended whenever the message is Telugu
finalMessageTeluguAlways(context, msg, short, oneLine, telugu, definition) ==
    context \o UserLineHead \o msg
        \o (IF short THEN BrevityLine ELSE <<>>)
        \o (IF oneLine THEN OneSentenceLine ELSE <<>>)
        \o (IF telugu THEN RespondInTeluguLine ELSE <<>>)

finalMessage(context, msg, short, oneLine, telugu, definition) ==
    context \o UserLineHead \o msg
        \o (IF short THEN BrevityLine ELSE <<>>)
        \o (IF oneLine THEN OneSentenceLine ELSE <<>>)
        \o (IF telugu /\ ~definition THEN RespondInTeluguLine ELSE <<>>)

\* the argument of model.generateContent
generateContentRequest(turns, final) ==
    Obj([contents |->
           Arr(turns \o <<Obj([role |-> Str(<<"u", "s", "e", "r">>),
                               parts |-> Arr(<<Obj([text |-> Str(final)])>>)])>>)])

\* result?.response?.candidates?.[0]?.content?.parts?.[0]?.text
firstCandidateText(result) ==
    OptGet(OptIndex(OptGet(OptGet(OptIndex(OptGet(OptGet(result, "response"),
        "candidates"), 0), "content"), "parts"), 0), "text")

\* ... || "Sorry, I couldn't generate a response."
reply(result) ==
    LET text == firstCandidateText(result)
    IN  IF Truthy(text) THEN text ELSE Str(FallbackText)

\* reply.trim(): a TypeError when reply is not a string
replyTrimThrows(r) == r.t # "string"

replyContent(r) == Str(trim(r.v))

\* the object handed to res.json
assistantMessage(content) == [role |-> "assistant", content |-> content]

(***************************************************************************)
(* Requests and collaborator outcomes the model draws from.                *)
(***************************************************************************)
\* the pieces messages are built from: an appreciation term in upper case, a word
\* character, a space, a transliterated definition phrase and a Telugu letter
Chunks ==
    { <<"O", "K">>,
      <<"x">>,
      <<" ">>,
      <<"c", "h", "e", "p", "p", "u">>,
      <<"U+0C15">> }

RECURSIVE ChunkTexts(_)
\* the concatenations of exactly n chunks
ChunkTexts(n) ==
    IF n = 0 THEN {<<>>}
    ELSE {m \o c : m \in ChunkTexts(n - 1), c \in Chunks}

\* "Tell me briefly about machine learning, in one line"
BrieflyMessage ==
    <<"T", "e", "l", "l", " ", "m", "e", " ", "b", "r", "i", "e", "f", "l", "y", " ", "a", "b",
      "o", "u", "t", " ", "m", "a", "c", "h", "i", "n", "e", " ", "l", "e", "a", "r", "n", "i",
      "n", "g", ",", " ", "i", "n", " ", "o", "n", "e", " ", "l", "i", "n", "e">>

\* "Tell me shortly about machine learning, in one line"
ShortlyMessage ==
    <<"T", "e", "l", "l", " ", "m", "e", " ", "s", "h", "o", "r", "t", "l", "y", " ", "a", "b",
      "o", "u", "t", " ", "m", "a", "c", "h", "i", "n", "e", " ", "l", "e", "a", "r", "n", "i",
      "n", "g", ",", " ", "i", "n", " ", "o", "n", "e", " ", "l", "i", "n", "e">>

\* "Thanks, <U+0C15> cheppu"
ThanksTeluguMessage ==
    <<"T", "h", "a", "n", "k", "s", ",", " ", "U+0C15", " ", "c", "h", "e", "p", "p", "u">>

FlagNames == {"telugu", "definition", "short", "oneLine"}

\* a message that sets exactly the flags of S
FlagMessage(S) ==
    <<"h", "e", "y">>
        \o (IF "telugu" \in S THEN <<" ", "U+0C15">> ELSE <<>>)
        \o (IF "definition" \in S THEN <<" ", "c", "h", "e", "p", "u">> ELSE <<>>)
        \o (IF "short" \in S THEN <<" ", "S", "h", "o", "r", "t", "e", "n">> ELSE <<>>)
        \o (IF "oneLine" \in S THEN <<" ", "1", " ", "l", "i", "n", "e">> ELSE <<>>)

\* directive and definition phrases with and without a word boundary around them
PhraseMessages ==
    { <<"W", "h", "a", "t", " ", "i", "s", " ", "x">>,
      <<"x", "W", "h", "a", "t", " ", "i", "s">>,
      <<"s", "h", "o", "r", "t", "s">>,
      <<"i", "n", " ", "o", "n", "e", " ", "l", "i", "n", "e", "r">>,
      <<"o", "n", "e", " ", "l", "i", "n", "e", "r">>,
      <<"U+0C80", " ", "n", "o", "o", "k">> }

MessageTexts ==
    UNION {ChunkTexts(n) : n \in 0..MaxChunks}
        \cup {FlagMessage(S) : S \in SUBSET FlagNames}
        \cup PhraseMessages
        \cup {BrieflyMessage, ShortlyMessage, ThanksTeluguMessage}

\* req.body.message: a string, absent, or not a string
MessageValues == {Str(m) : m \in MessageTexts} \cup {Undefined, Num(42)}

Turn(role, content) == Obj([role |-> Str(role), content |-> Str(content)])

HistoryEntries ==
    { Turn(<<"u", "s", "e", "r">>, <<"h", "i">>),
      Turn(<<"m", "o", "d", "e", "l">>, <<"y", "o">>),
      Null }

RECURSIVE SeqsUpTo(_, _)
\* the sequences over S of length at most n
SeqsUpTo(S, n) ==
    IF n = 0 THEN {<<>>}
    ELSE LET shorter == SeqsUpTo(S, n - 1)
         IN  shorter \cup {Append(s, x) : s \in {t \in shorter : Len(t) = n - 1}, x \in S}

\* req.body.history: absent, an array of turns (an entry may be null), or not an array
HistoryValues ==
    {Undefined, Num(7)} \cup {Arr(h) : h \in SeqsUpTo(HistoryEntries, MaxHistory)}

\* req.body is undefined when no body parser filled it
Bodies ==
    {Undefined} \cup
    {Obj([message |-> m, history |-> h]) : m \in MessageValues, h \in HistoryValues}

\* req.user is set by the authentication middleware, or missing
Users == {Undefined, Obj([id |-> Str(<<"u", "1">>)])}

Requests == [body : Bodies, user : Users]

Skill(name, proficiency) ==
    Obj([skillName |-> Str(name), proficiency |-> Str(proficiency)])

SkillNames == <<"a", "b", "c", "d", "e", "f", "g", "h">>

\* the k-th skill of the catalogue: all skills differ
CatalogueSkill(k) ==
    Skill(<<"S", SkillNames[k]>>, IF k % 2 = 1 THEN <<"A", "d", "v">> ELSE <<"B", "e", "g">>)

\* a user document that holds the first n skills of the catalogue
UserWithSkills(n) == Obj([skills |-> Arr([k \in 1..n |-> CatalogueSkill(k)])])

Fulfilled(v) == [state |-> "fulfilled", value |-> v]
Rejected == [state |-> "rejected"]

\* User.findById(...).select("skills"): rejects, or resolves with null (no such
\* user), a document without skills, or a document with its skills
FindByIdOutcomes ==
    {Rejected, Fulfilled(Null), Fulfilled(Obj([id |-> Str(<<"u", "1">>)]))} \cup
    {Fulfilled(UserWithSkills(n)) : n \in 0..MaxSkills}

Part(text) == Obj([text |-> text])
Candidate(parts) == Obj([content |-> Obj([parts |-> Arr(parts)])])
Response(candidates) == Obj([response |-> Obj([candidates |-> candidates])])

PaddedText == <<" ", "H", "i", "\n">>
OtherText == <<"N", "o">>
BlankText == <<" ", "\n">>

\* model.generateContent(...): rejects, or resolves with a well-formed or a
\* degenerate result
GenerateContentOutcomes ==
    { Rejected,
      Fulfilled(Undefined),
      Fulfilled(Response(Arr(<<>>))),
      Fulfilled(Response(Arr(<<Obj([finishReason |-> Str(<<"S">>)])>>))),
      Fulfilled(Response(Arr(<<Candidate(<<Part(Undefined)>>)>>))),
      Fulfilled(Response(Arr(<<Candidate(<<Part(Str(<<>>))>>)>>))),
      Fulfilled(Response(Arr(<<Candidate(<<Part(Str(BlankText))>>)>>))),
      Fulfilled(Response(Arr(<<Candidate(<<Part(Num(7))>>)>>))),
      Fulfilled(Response(Arr(<<Candidate(<<Part(Str(PaddedText))>>),
                               Candidate(<<Part(Str(OtherText))>>)>>))),
      Fulfilled(Response(Arr(<<Candidate(<<Part(Str(<<>>))>>),
                               Candidate(<<Part(Str(OtherText))>>)>>))) }

(***************************************************************************)
(* The handler.                                                            *)
(***************************************************************************)
\* the locals of one run before they are assigned
EmptyFrame ==
    [lowerMsg |-> <<>>, wantsShort |-> FALSE, wantsOneLine |-> FALSE,
     isTelugu |-> FALSE, isDefinitionRequest |-> FALSE,
     user |-> Undefined, userSkills |-> <<>>, systemContext |-> <<>>,
     chatHistory |-> <<>>, finalMessage |-> <<>>,
     result |-> Undefined, settled |-> "none"]

\* res.json(...) after an optional res.status(...)
Send(r, status, content) ==
    res' = [res EXCEPT ![r] =
              Append(@, [status |-> status, body |-> assistantMessage(content)])]

\* Assign with the locals declared at module scope: one frame for all calls
AssignShared(r, locals) == frame' = [q \in DOMAIN frame |-> locals]

\* const and let bind the locals of the running call only
Assign(r, locals) == frame' = [frame EXCEPT ![r] = locals]

\* User.findById(id).select("skills") is called, once
CallFindById(r, id) == findByIdCalls' = [findByIdCalls EXCEPT ![r] = Append(@, id)]

\* CallGenerateContent with the call issued a second time
CallGenerateContentTwice(r, request) ==
    generateContentCalls' =
        [generateContentCalls EXCEPT ![r] = Append(Append(@, request), request)]

\* model.generateContent(request) is called, once
CallGenerateContent(r, request) ==
    generateContentCalls' = [generateContentCalls EXCEPT ![r] = Append(@, request)]

\* Math.random() is called, once
CallRandom(r) == randomCalls' = [randomCalls EXCEPT ![r] = @ + 1]

\* Catch answering with the fallback text instead of the apology
CatchWithFallback(r) ==
    /\ Send(r, 500, Str(FallbackText))
    /\ pc' = [pc EXCEPT ![r] = "done"]

\* the catch block: console.error, then res.status(500).json(apology)
Catch(r) ==
    /\ Send(r, 500, Str(ApologyText))
    /\ pc' = [pc EXCEPT ![r] = "done"]

\* the run from the call of the handler to its first await or its return
getChatResponse(r) ==
    /\ pc[r] = "start"
    /\ UNCHANGED <<req, generateContentCalls>>
    /\ IF IsNullish(req[r].body)
       THEN \* the destructuring of req.body stands before the try block
            /\ pc' = [pc EXCEPT ![r] = "threw"]
            /\ UNCHANGED <<frame, res, findByIdCalls, randomCalls>>
       ELSE LET message == Get(req[r].body, "message")
            IN  IF message.t # "string"
                THEN \* message.toLowerCase throws a TypeError
                     /\ Catch(r)
                     /\ UNCHANGED <<frame, findByIdCalls, randomCalls>>
                ELSE LET low == lowerMsg(message.v)
                     IN  IF Route(low) = "ShortCircuit"
                         THEN \E k \in 0..(Len(quickReplies) - 1) :
                                \* k = Math.floor(Math.random() * quickReplies.length)
                                /\ CallRandom(r)
                                /\ Send(r, 200, Str(quickReplies[k + 1]))
                                /\ pc' = [pc EXCEPT ![r] = "done"]
                                /\ Assign(r, [frame[r] EXCEPT !.lowerMsg = low])
                                /\ UNCHANGED findByIdCalls
                         ELSE /\ Assign(r, [frame[r] EXCEPT
                                    !.lowerMsg = low,
                                    !.wantsShort = wantsShort(low),
                                    !.wantsOneLine = wantsOneLine(low),
                                    !.isTelugu = isTelugu(message.v),
                                    !.isDefinitionRequest = isDefinitionRequest(low)])
                              /\ UNCHANGED randomCalls
                              /\ IF IsNullish(req[r].user)
                                 THEN \* req.user.id throws a TypeError
                                      /\ Catch(r)
                                      /\ UNCHANGED findByIdCalls
                                 ELSE /\ CallFindById(r, Get(req[r].user, "id"))
                                      /\ pc' = [pc EXCEPT ![r] = "awaitFindById"]
                                      /\ UNCHANGED res

\* the run from the settling of User.findById to the second await or the return
findByIdSettled(r, outcome) ==
    /\ pc[r] = "awaitFindById"
    /\ UNCHANGED <<req, findByIdCalls, randomCalls>>
    /\ IF outcome.state = "rejected"
       THEN /\ Catch(r)
            /\ Assign(r, [frame[r] EXCEPT !.settled = "findByIdRejected"])
            /\ UNCHANGED generateContentCalls
       ELSE LET message == Get(req[r].body, "message").v
                history == Get(req[r].body, "history")
                user == outcome.value
                skillsText == userSkills(user)
                context == systemContext(frame[r].isTelugu,
                                         frame[r].isDefinitionRequest, skillsText)
            IN  IF chatHistoryThrows(history)
                THEN /\ Catch(r)
                     /\ Assign(r, [frame[r] EXCEPT
                            !.user = user,
                            !.userSkills = skillsText,
                            !.systemContext = context,
                            !.settled = "findByIdFulfilled"])
                     /\ UNCHANGED generateContentCalls
                ELSE LET turns == chatHistory(history)
                         final == finalMessage(context, message,
                                               frame[r].wantsShort, frame[r].wantsOneLine,
                                               frame[r].isTelugu,
                                               frame[r].isDefinitionRequest)
                     IN  /\ Assign(r, [frame[r] EXCEPT
                                !.user = user,
                                !.userSkills = skillsText,
                                !.systemContext = context,
                                !.chatHistory = turns,
                                !.finalMessage = final,
                                !.settled = "findByIdFulfilled"])
                         /\ CallGenerateContent(r, generateContentRequest(turns, final))
                         /\ pc' = [pc EXCEPT ![r] = "awaitGenerateContent"]
                         /\ UNCHANGED res

\* the run from the settling of model.generateContent to the return
generateContentSettled(r, outcome) ==
    /\ pc[r] = "awaitGenerateContent"
    /\ UNCHANGED <<req, findByIdCalls, generateContentCalls, randomCalls>>
    /\ IF outcome.state = "rejected"
       THEN /\ Catch(r)
            /\ Assign(r, [frame[r] EXCEPT !.settled = "generateContentRejected"])
       ELSE LET answer == reply(outcome.value)
            IN  /\ Assign(r, [frame[r] EXCEPT
                       !.result = outcome.value,
                       !.settled = "generateContentFulfilled"])
                /\ IF replyTrimThrows(answer)
                   THEN Catch(r)
                   ELSE /\ Send(r, 200, replyContent(answer))
                        /\ pc' = [pc EXCEPT ![r] = "done"]

InitWith(ids, requests) ==
    /\ req \in [ids -> requests]
    /\ pc = [r \in ids |-> "start"]
    /\ frame = [r \in ids |-> EmptyFrame]
    /\ res = [r \in ids |-> <<>>]
    /\ findByIdCalls = [r \in ids |-> <<>>]
    /\ generateContentCalls = [r \in ids |-> <<>>]
    /\ randomCalls = [r \in ids |-> 0]

\* one request, every input
Init == InitWith({1}, Requests)

Next ==
    \/ \E r \in DOMAIN pc : getChatResponse(r)
    \/ \E r \in DOMAIN pc : \E o \in FindByIdOutcomes : findByIdSettled(r, o)
    \/ \E r \in DOMAIN pc : \E o \in GenerateContentOutcomes : generateContentSettled(r, o)

Spec == Init /\ [][Next]_vars

(***************************************************************************)
(* Several requests in flight: the handler runs of different requests      *)
(* interleave at their awaits.                                             *)
(***************************************************************************)
ConcurrentMessages ==
    { Str(<<"O", "K">>),
      Str(<<"c", "h", "e", "p", "p", "u", "U+0C15">>),
      Str(<<"s", "h", "o", "r", "t">>) }

ConcurrentHistories ==
    { Undefined, Arr(<<Turn(<<"u", "s", "e", "r">>, <<"h", "i">>)>>) }

ConcurrentRequests ==
    [body : {Obj([message |-> m, history |-> h]) :
                m \in ConcurrentMessages, h \in ConcurrentHistories},
     user : {Obj([id |-> Str(<<"u", "1">>)])}]

ConcurrentFindByIdOutcomes ==
    { Rejected, Fulfilled(Null),
      Fulfilled(Obj([skills |-> Arr(<<Skill(<<"J", "S">>, <<"A", "d", "v">>)>>)])) }

ConcurrentGenerateContentOutcomes ==
    { Rejected,
      Fulfilled(Response(Arr(<<>>))),
      Fulfilled(Response(Arr(<<Candidate(<<Part(Str(PaddedText))>>)>>))) }

InitConcurrent == InitWith(1..NumRequests, ConcurrentRequests)

NextConcurrent ==
    \/ \E r \in DOMAIN pc : getChatResponse(r)
    \/ \E r \in DOMAIN pc :
          \E o \in ConcurrentFindByIdOutcomes : findByIdSettled(r, o)
    \/ \E r \in DOMAIN pc :
          \E o \in ConcurrentGenerateContentOutcomes : generateContentSettled(r, o)

SpecConcurrent == InitConcurrent /\ [][NextConcurrent]_vars

(***************************************************************************)
(* Properties.                                                             *)
(***************************************************************************)
\* req.body.message and req.body.history of request r (undefined without a body)
messageOf(r) == Get(req[r].body, "message")
historyOf(r) == Get(req[r].body, "history")

\* the message of r is a string whose lower-cased, trimmed form holds an
\* appreciation term between word boundaries
IsAppreciation(r) ==
    /\ messageOf(r).t = "string"
    /\ TestWord(trim(toLowerCase(messageOf(r).v)), appreciationTerms)

\* the message of r is a string that holds no appreciation term
IsDelegated(r) ==
    /\ messageOf(r).t = "string"
    /\ ~TestWord(trim(toLowerCase(messageOf(r).v)), appreciationTerms)

CannedReplies == {Str(quickReplies[k]) : k \in 1..Len(quickReplies)}

\* the content of the reply a finished request emitted
contentOf(r) == res[r][Len(res[r])].body.content

\* the locals of r were assigned up to finalMessage and generateContent was called
Assembled(r) == generateContentCalls[r] # <<>>

\* C1: a request whose lower-cased, trimmed message holds an appreciation term
\* between word boundaries, whatever else it holds, ends with one reply whose
\* content is one of the four canned replies, and neither User.findById nor
\* generateContent is called at any point of the request.
C1_AppreciationShortCircuits ==
    /\ Cardinality(CannedReplies) = 4
    /\ \A r \in DOMAIN pc :
         (pc[r] # "start" /\ IsAppreciation(r)) =>
            /\ pc[r] = "done"
            /\ Len(res[r]) = 1
            /\ contentOf(r) \in CannedReplies
            /\ findByIdCalls[r] = <<>>
            /\ generateContentCalls[r] = <<>>

\* an appreciation term beside a definition phrase and a Telugu letter was answered
C1_Witness ==
    \E r \in DOMAIN pc :
        /\ pc[r] = "done"
        /\ messageOf(r) = Str(ThanksTeluguMessage)
        /\ isDefinitionRequest(lowerMsg(ThanksTeluguMessage))
        /\ isTelugu(ThanksTeluguMessage)
        /\ contentOf(r) \in CannedReplies

\* C2: whatever the request holds and whatever the collaborators answer, no
\* exception leaves the handler, a finished request has emitted exactly one
\* reply, and every reply is exactly {role: "assistant", content: <string>}.
C2_NoExceptionEscapes ==
    \A r \in DOMAIN pc :
        /\ pc[r] # "threw"
        /\ Len(res[r]) <= 1
        /\ pc[r] = "done" => Len(res[r]) = 1
        /\ \A i \in 1..Len(res[r]) :
             /\ DOMAIN res[r][i].body = {"role", "content"}
             /\ res[r][i].body.role = "assistant"
             /\ res[r][i].body.content.t = "string"

\* generateContent resolved with no candidate at all
NoCandidates(result) ==
    LET candidates == OptGet(OptGet(result, "response"), "candidates")
    IN  candidates.t # "array" \/ Len(candidates.v) = 0

OccursBefore(s, first, second) ==
    \E i \in 1..Len(s) : \E j \in 1..Len(s) :
        i < j /\ MatchAt(s, i, first) /\ MatchAt(s, j, second)

\* C4 as stated: for "Tell me briefly about machine learning, in one line" both
\* directives are set and finalMessage holds the brevity line before the
\* single-sentence line.
C4_BrieflySetsBothDirectives ==
    \A r \in DOMAIN pc :
        (Assembled(r) /\ messageOf(r) = Str(BrieflyMessage)) =>
            /\ frame[r].wantsShort
            /\ frame[r].wantsOneLine
            /\ OccursBefore(frame[r].finalMessage, BrevityLine, OneSentenceLine)

\* C4 as amended: for "Tell me briefly about machine learning, in one line" only
\* the single-sentence directive is set and finalMessage holds the
\* single-sentence line and no brevity line; with "shortly" in place of
\* "briefly" both directives are set and the brevity line precedes the
\* single-sentence line.
C4_BrieflySetsOneLineOnly ==
    \A r \in DOMAIN pc :
        Assembled(r) =>
            /\ messageOf(r) = Str(BrieflyMessage) =>
                 /\ ~frame[r].wantsShort
                 /\ frame[r].wantsOneLine
                 /\ includes(frame[r].finalMessage, OneSentenceLine)
                 /\ ~includes(frame[r].finalMessage, BrevityLine)
            /\ messageOf(r) = Str(ShortlyMessage) =>
                 /\ frame[r].wantsShort
                 /\ frame[r].wantsOneLine
                 /\ OccursBefore(frame[r].finalMessage, BrevityLine, OneSentenceLine)

\* the "briefly" message was assembled and sent to the engine
C4_Witness ==
    \E r \in DOMAIN pc :
        /\ pc[r] = "awaitGenerateContent"
        /\ messageOf(r) = Str(BrieflyMessage)
        /\ includes(frame[r].finalMessage, OneSentenceLine)

IsOn(x) == x.on

\* the lines whose flag is set, in the order brevity, single-sentence, Telugu
DirectiveSuffix(short, oneLine, teluguLine) ==
    LET chosen == SelectSeq(<<[on |-> short, line |-> BrevityLine],
                              [on |-> oneLine, line |-> OneSentenceLine],
                              [on |-> teluguLine, line |-> RespondInTeluguLine]>>, IsOn)
    IN  CASE Len(chosen) = 0 -> <<>>
          [] Len(chosen) = 1 -> chosen[1].line
          [] Len(chosen) = 2 -> chosen[1].line \o chosen[2].line
          [] OTHER -> chosen[1].line \o chosen[2].line \o chosen[3].line

\* C5: systemContext is the Telugu-definition line iff isTelugu and
\* isDefinitionRequest, the English-definition line iff isDefinitionRequest and
\* not isTelugu, the career-advice line otherwise; finalMessage is systemContext,
\* "\nUser: ", the original message and then exactly the lines whose flag is
\* set, in the order brevity, single-sentence, respond-in-Telugu; the
\* respond-in-Telugu line is there iff isTelugu and not isDefinitionRequest, so
\* never together with the Telugu-definition systemContext.
C5_ContextAndFinalMessage ==
    \A r \in DOMAIN pc :
        Assembled(r) =>
            LET f == frame[r]
            IN  /\ (f.systemContext = TeluguDefinitionContext)
                      <=> (f.isTelugu /\ f.isDefinitionRequest)
                /\ (f.systemContext = EnglishDefinitionContext)
                      <=> (f.isDefinitionRequest /\ ~f.isTelugu)
                /\ ~f.isDefinitionRequest =>
                      f.systemContext = CareerContextHead \o f.userSkills \o CareerContextTail
                /\ f.finalMessage =
                      f.systemContext \o UserLineHead \o messageOf(r).v
                          \o DirectiveSuffix(f.wantsShort, f.wantsOneLine,
                                             f.isTelugu /\ ~f.isDefinitionRequest)
                /\ includes(f.finalMessage, RespondInTeluguLine)
                      <=> (f.isTelugu /\ ~f.isDefinitionRequest)
                /\ ~(f.systemContext = TeluguDefinitionContext
                       /\ includes(f.finalMessage, RespondInTeluguLine))

\* a message with all three lines appended was assembled
C5_Witness ==
    \E r \in DOMAIN pc :
        /\ pc[r] = "awaitGenerateContent"
        /\ frame[r].wantsShort /\ frame[r].wantsOneLine
        /\ frame[r].isTelugu /\ ~frame[r].isDefinitionRequest
        /\ includes(frame[r].finalMessage, RespondInTeluguLine)

\* the prior turns of request r: the history array, or none when it is absent
priorTurns(r) == IF historyOf(r).t = "array" THEN historyOf(r).v ELSE <<>>

\* the contents array of the generateContent call of r
contentsOf(r) == Get(generateContentCalls[r][1], "contents").v

textOfTurn(turn) == Get(OptIndex(Get(turn, "parts"), 0), "text")

\* C6: the conversation passed to the engine has one element more than the
\* history; its i-th element carries the role and content of the i-th prior
\* turn; its last element is a user turn whose content is finalMessage.
C6_ConversationPreservesHistory ==
    \A r \in DOMAIN pc :
        Assembled(r) =>
            /\ Len(contentsOf(r)) = Len(priorTurns(r)) + 1
            /\ \A i \in 1..Len(priorTurns(r)) :
                 /\ Get(contentsOf(r)[i], "role") = Get(priorTurns(r)[i], "role")
                 /\ textOfTurn(contentsOf(r)[i]) = Get(priorTurns(r)[i], "content")
                 /\ Len(Get(contentsOf(r)[i], "parts").v) = 1
            /\ Get(contentsOf(r)[Len(contentsOf(r))], "role") = Str(<<"u", "s", "e", "r">>)
            /\ textOfTurn(contentsOf(r)[Len(contentsOf(r))]) = Str(frame[r].finalMessage)

\* a history of two different turns was passed on
C6_Witness ==
    \E r \in DOMAIN pc :
        /\ Assembled(r)
        /\ Len(priorTurns(r)) = 2
        /\ priorTurns(r)[1] # priorTurns(r)[2]
        /\ Len(contentsOf(r)) = 3

\* C7 as stated: a finished Delegated request has called the engine exactly once
\* and the profile store at most once; a finished ShortCircuit request has drawn
\* exactly one random number; no collaborator is called a second time.
C7_EngineCalledExactlyOnce ==
    \A r \in DOMAIN pc :
        /\ Len(findByIdCalls[r]) <= 1
        /\ Len(generateContentCalls[r]) <= 1
        /\ pc[r] = "done" =>
             /\ IsDelegated(r) => Len(generateContentCalls[r]) = 1
             /\ IsAppreciation(r) => randomCalls[r] = 1

\* C7 as amended: no collaborator is ever called a second time; a finished
\* Delegated request has called the engine exactly once when the profile lookup
\* resolved and the history could be mapped, and not at all otherwise (req.user
\* missing, lookup rejected, history not mappable); a finished ShortCircuit
\* request has drawn exactly one random number and a Delegated request none.
C7_EngineCalledOnceAfterLookup ==
    \A r \in DOMAIN pc :
        /\ Len(findByIdCalls[r]) <= 1
        /\ Len(generateContentCalls[r]) <= 1
        /\ randomCalls[r] <= 1
        /\ pc[r] = "done" =>
             /\ IsDelegated(r) =>
                  /\ randomCalls[r] = 0
                  /\ Len(generateContentCalls[r]) = 1
                       <=> /\ ~IsNullish(req[r].user)
                           /\ frame[r].settled # "findByIdRejected"
                           /\ ~chatHistoryThrows(historyOf(r))
             /\ IsAppreciation(r) => randomCalls[r] = 1

\* a Delegated request ended on a rejected lookup without any engine call
C7_Witness ==
    \E r \in DOMAIN pc :
        /\ pc[r] = "done"
        /\ IsDelegated(r)
        /\ frame[r].settled = "findByIdRejected"
        /\ Len(findByIdCalls[r]) = 1
        /\ generateContentCalls[r] = <<>>

\* the skills array of a user document, or none
skillsOf(user) ==
    IF OptGet(user, "skills").t = "array" THEN OptGet(user, "skills").v ELSE <<>>

RECURSIVE RenderedSkills(_)
\* "name (proficiency)" of every skill, joined by ", "
RenderedSkills(list) ==
    LET one == Get(list[1], "skillName").v \o <<" ", "(">>
                  \o Get(list[1], "proficiency").v \o <<")">>
    IN  IF Len(list) = 1 THEN one
        ELSE one \o <<",", " ">> \o RenderedSkills(Tail(list))

\* C8: for a CareerAdvice message, a lookup that resolves with no user, no
\* skills field or an empty skill list does not fail the request and
\* systemContext embeds "None"; otherwise systemContext embeds every skill as
\* "name (proficiency)", joined by ", " in snapshot order.
C8_SkillsRendering ==
    \A r \in DOMAIN pc :
        (frame[r].settled = "findByIdFulfilled" /\ ~frame[r].isDefinitionRequest) =>
            LET list == skillsOf(frame[r].user)
            IN  /\ pc[r] = "done" => chatHistoryThrows(historyOf(r))
                /\ list = <<>> =>
                     frame[r].systemContext =
                        CareerContextHead \o NoneText \o CareerContextTail
                /\ list # <<>> =>
                     frame[r].systemContext =
                        CareerContextHead \o RenderedSkills(list) \o CareerContextTail

\* a career-advice request whose lookup found no user went on to the engine
C8_Witness ==
    \E r \in DOMAIN pc :
        /\ pc[r] = "awaitGenerateContent"
        /\ ~frame[r].isDefinitionRequest
        /\ frame[r].user = Null
        /\ includes(frame[r].systemContext, NoneText)

\* the request the handler sends to the engine for message m, history h and looked-up user u
ExpectedRequest(m, h, u) ==
    LET low == lowerMsg(m)
    IN  generateContentRequest(chatHistory(h),
            finalMessage(systemContext(isTelugu(m), isDefinitionRequest(low), userSkills(u)),
                         m, wantsShort(low), wantsOneLine(low),
                         isTelugu(m), isDefinitionRequest(low)))

\* C9: with several requests in flight and their awaits interleaved in any
\* order, the conversation a request sends to the engine and the reply it emits
\* are determined by its own message, history, looked-up user and engine result
\* (and its own random choice on the appreciation path).
C9_RequestsAreIndependent ==
    \A r \in DOMAIN pc :
        /\ Assembled(r) =>
             generateContentCalls[r] =
                <<ExpectedRequest(messageOf(r).v, historyOf(r), frame[r].user)>>
        /\ pc[r] = "done" =>
             /\ Len(res[r]) = 1
             /\ IsAppreciation(r) => contentOf(r) \in CannedReplies
             /\ frame[r].settled \in {"findByIdRejected", "generateContentRejected"}
                  => contentOf(r) = Str(ApologyText)
             /\ frame[r].settled = "generateContentFulfilled"
                  => contentOf(r) = IF replyTrimThrows(reply(frame[r].result))
                                    THEN Str(ApologyText)
                                    ELSE replyContent(reply(frame[r].result))

\* two requests with different messages are both between their awaits, one
\* behind its lookup and one still waiting for it
C9_Witness ==
    \E r1 \in DOMAIN pc : \E r2 \in DOMAIN pc :
        /\ r1 # r2
        /\ messageOf(r1) # messageOf(r2)
        /\ pc[r1] = "awaitGenerateContent"
        /\ pc[r2] = "awaitFindById"

\* C10: the content of every reply is a non-empty string; when the engine
\* resolved, the content is the trimmed text of the first candidate's first part
\* if that text is non-empty after trimming, and the fallback text when the
\* text is missing or holds no non-whitespace character.
C10_ReplyNeverEmpty ==
    \A r \in DOMAIN pc :
        \A i \in 1..Len(res[r]) :
            LET content == res[r][i].body.content
                text == firstCandidateText(frame[r].result)
            IN  /\ content.t = "string"
                /\ Len(content.v) > 0
                /\ frame[r].settled = "generateContentFulfilled" =>
                     CASE text.t = "string" /\ trim(text.v) # <<>>
                            -> content = Str(trim(text.v))
                       [] text.t = "string" \/ IsNullish(text)
                            -> content = Str(FallbackText)
                       [] OTHER -> TRUE

====
